---- MODULE Spec2Model ----
(***************************************************************************)
(* PhotoMigrator web interface: the in-memory job store (web/jobs.py), the *)
(* queue worker and request handlers (web/main.py) and the runner          *)
(* (web/runner.py), as one state machine.                                  *)
(*                                                                         *)
(* Threads: the request handlers (FastAPI runs the sync endpoints on a     *)
(* thread pool), one worker thread started by lifespan, and readers.       *)
(* Steps are the points at which CPython may switch threads between two    *)
(* writes of shared state; jobs.py takes no lock.                          *)
(***************************************************************************)
EXTENDS Integers, Sequences, FiniteSets, TLC

\* Bounds of the model.
MaxJobs == 2
MaxEmit == 2

\* The threads of the pool that runs the request handlers: two requests can
\* be in flight at once.
Handlers == {"t1", "t2"}
FirstThread == "t1"

\* The endpoint the n-th submitted request is for: start_google_takeout and
\* start_automatic_migration (and their form twins) differ only in the mode
\* they create and enqueue, and requests alternate between the two.
ModeOf(n) == IF n % 2 = 1 THEN "google-takeout" ELSE "automatic-migration"

\* The messages of the exceptions the engine's code raises.
ValidationMsgs == {"bad args"}
SetupMsgs == {"cannot open log file"}
FaultMsgs == {"disk full"}

\* Optional values (str | None): None is <<>>, a present value x is <<x>>.
None == << >>
Some(x) == << x >>

\* A LogRecord the engine hands to GV.LOGGER: args_ok says whether
\* record.getMessage() (msg % args) succeeds.
Records ==
    { [levelname |-> "INFO", msg |-> "copied", args_ok |-> TRUE],
      [levelname |-> "WARNING", msg |-> "skipped %d", args_ok |-> FALSE] }

NoItem == [job_id |-> 0, mode |-> "none"]
Sentinel == [job_id |-> 0, mode |-> "None"]
NoCall ==
    [op |-> "none", job_id |-> 0, status |-> "none", error |-> None,
     result_summary |-> None, line |-> "", step |-> "none"]
NoRecord == [levelname |-> "none", msg |-> "", args_ok |-> TRUE, created |-> 0]
NoJob ==
    [id |-> 0, mode |-> "none", status |-> "none", created_at |-> 0,
     updated_at |-> 0, log_lines |-> << >>, error |-> None,
     result_summary |-> None]
NoObs == [kind |-> "none", job_id |-> 0, val |-> << >>]
IdleHandler == [pc |-> "idle", job_id |-> 0, mode |-> "none"]

VARIABLES
    jobs,             \* _jobs: job id -> Job
    job_order,        \* _job_order
    job_queue,        \* _job_queue: items and the None sentinel, FIFO
    unfinished_tasks, \* queue.Queue's count of items not yet task_done()
    handler,          \* each request handler thread: pc and locals
    shutdown,         \* lifespan has passed its yield (teardown)
    wpc,              \* the worker thread's position
    item,             \* the worker's dequeued item
    exc,              \* the exception in flight in run_mode (None: none)
    call,             \* the jobs.py call the worker is inside, and its step
    logger_handlers,  \* GV.LOGGER.handlers: the job ids of installed bridges
    record,           \* the LogRecord being dispatched to the handlers
    emitQ,            \* handlers the record is still to be passed to
    \* history variables
    statusHist,       \* job id -> the status values written, in order
    putOrder,         \* job ids in the order their items were put
    runOrder,         \* job ids in the order they were set running
    emitted,          \* job id -> records the engine logged while running it
    raised,           \* job id -> what the processing of its item raised
    invoked,          \* job ids whose engine invocation was entered
    obs,              \* the reader's last observation since the call began
    callPre,          \* the record as it was when the worker's call began
    \* the configuration
    form_data,        \* config_save: the fields of the form last saved
    config_file,      \* Config.ini
    served            \* config_page: the sections last served of this file

jobVars ==
    << jobs, job_order, job_queue, unfinished_tasks, handler, shutdown,
       wpc, item, exc, call, logger_handlers, record, emitQ,
       statusHist, putOrder, runOrder, emitted, raised, invoked, obs, callPre >>

configVars == << form_data, config_file, served >>

vars == << jobVars, configVars >>

storeVars == << jobs, job_order >>
queueVars == << job_queue, unfinished_tasks >>
workerVars == << wpc, item, exc, call, logger_handlers, record, emitQ >>
histVars == << statusHist, putOrder, runOrder, emitted, raised, invoked >>
readerVars == << obs, callPre >>

----------------------------------------------------------------------------
\* web/jobs.py

JobIds == DOMAIN jobs

\* Job(id, mode, PENDING, now, now): log_lines, error, result_summary default.
\* The time of creation is kept as the number of jobs created before.
NewJob(job_id, mode, now) ==
    [id |-> job_id, mode |-> mode, status |-> "pending", created_at |-> now,
     updated_at |-> now, log_lines |-> << >>, error |-> None,
     result_summary |-> None]

\* Job.to_dict
ToDict(job) ==
    [id |-> job.id, mode |-> job.mode, status |-> job.status,
     created_at |-> job.created_at, updated_at |-> job.updated_at,
     log_lines_count |-> Len(job.log_lines), error |-> job.error,
     result_summary |-> job.result_summary]

\* InsertJob that rebinds _jobs to a map holding the new job alone.
InsertJob_Replace(js, job) == [j \in {job.id} |-> job]

\* _jobs[job_id] = job
InsertJob(js, job) ==
    [j \in DOMAIN js \cup {job.id} |-> IF j = job.id THEN job ELSE js[j]]

\* get_job: _jobs.get(job_id)
get_job(job_id) == IF job_id \in JobIds THEN jobs[job_id] ELSE NoJob

\* datetime.utcnow() for a refresh of job_id's updated_at. Time is kept per
\* job, as the number of readings of the clock stored in the record so far:
\* a refresh is visible, and no state is spent on how the threads' readings
\* interleave.
utcnow(job_id) == jobs[job_id].updated_at + 1

\* SetUpdatedAt that refreshes the time of every record of the store.
SetUpdatedAt_All(js, job_id, now) ==
    [j \in DOMAIN js |-> [js[j] EXCEPT !.updated_at = now]]

\* SetStatus that forgets the error recorded before.
SetStatus_ClearError(js, job_id, status) ==
    [js EXCEPT ![job_id].status = status, ![job_id].error = None]

\* The single field writes of update_job_status and append_job_log.
SetStatus(js, job_id, status) == [js EXCEPT ![job_id].status = status]
SetUpdatedAt(js, job_id, now) == [js EXCEPT ![job_id].updated_at = now]
SetError(js, job_id, error) == [js EXCEPT ![job_id].error = Some(error)]
SetSummary(js, job_id, s) == [js EXCEPT ![job_id].result_summary = Some(s)]
\* AppendLine that assigns the list instead of appending to it.
AppendLine_Assign(js, job_id, line) ==
    [js EXCEPT ![job_id].log_lines = << line >>]

AppendLine(js, job_id, line) ==
    [js EXCEPT ![job_id].log_lines = Append(@, line)]

\* The step of update_job_status that follows the refresh of updated_at.
AfterTime(c) ==
    IF c.error # None THEN "error"
    ELSE IF c.result_summary # None THEN "summary" ELSE "return"

UpdateCall(job_id, status, error, summary) ==
    [op |-> "update", job_id |-> job_id, status |-> status, error |-> error,
     result_summary |-> summary, line |-> "", step |-> "status"]

AppendCall(job_id, line) ==
    [op |-> "append", job_id |-> job_id, status |-> "none", error |-> None,
     result_summary |-> None, line |-> line, step |-> "append"]

\* Entering a jobs.py call: the record as it is now is remembered, and what
\* a reader saw before the call is forgotten.
BeginCall(c) ==
    /\ call' = c
    /\ callPre' = get_job(c.job_id)
    /\ obs' = NoObs

\* job = _jobs.get(job_id); if job: job.status = status
UpdateSetStatus ==
    /\ call.op = "update" /\ call.step = "status"
    /\ IF call.job_id \in JobIds
       THEN /\ jobs' = SetStatus(jobs, call.job_id, call.status)
            /\ statusHist' =
                   [statusHist EXCEPT
                       ![call.job_id] = Append(@, jobs'[call.job_id].status)]
            /\ runOrder' = IF jobs'[call.job_id].status = "running"
                           THEN Append(runOrder, call.job_id) ELSE runOrder
            /\ call' = [call EXCEPT !.step = "time"]
       ELSE /\ call' = NoCall
            /\ UNCHANGED << jobs, statusHist, runOrder >>
    /\ UNCHANGED << job_order, queueVars, handler, shutdown, wpc, item,
                    exc, logger_handlers, record, emitQ, putOrder,
                    emitted, raised, invoked, readerVars >>
    /\ UNCHANGED configVars

\* job.updated_at = datetime.utcnow()
UpdateSetTime ==
    /\ call.op = "update" /\ call.step = "time"
    /\ jobs' = SetUpdatedAt(jobs, call.job_id, utcnow(call.job_id))
    /\ call' = IF AfterTime(call) = "return" THEN NoCall
               ELSE [call EXCEPT !.step = AfterTime(call)]
    /\ UNCHANGED << job_order, queueVars, handler, shutdown, wpc, item, exc,
                    logger_handlers, record, emitQ, histVars,
                    readerVars >>
    /\ UNCHANGED configVars

\* if error is not None: job.error = error
UpdateSetError ==
    /\ call.op = "update" /\ call.step = "error"
    /\ jobs' = SetError(jobs, call.job_id, call.error[1])
    /\ call' = IF call.result_summary # None
               THEN [call EXCEPT !.step = "summary"] ELSE NoCall
    /\ UNCHANGED << job_order, queueVars, handler, shutdown, wpc, item,
                    exc, logger_handlers, record, emitQ, histVars,
                    readerVars >>
    /\ UNCHANGED configVars

\* if result_summary is not None: job.result_summary = result_summary
UpdateSetSummary ==
    /\ call.op = "update" /\ call.step = "summary"
    /\ jobs' = SetSummary(jobs, call.job_id, call.result_summary[1])
    /\ call' = NoCall
    /\ UNCHANGED << job_order, queueVars, handler, shutdown, wpc, item,
                    exc, logger_handlers, record, emitQ, histVars,
                    readerVars >>
    /\ UNCHANGED configVars

\* AppendLogLine of an append_job_log that makes a record for an id it
\* does not find.
AppendLogLine_Upsert ==
    /\ call.op = "append" /\ call.step = "append"
    /\ jobs' = IF call.job_id \in JobIds
                THEN AppendLine(jobs, call.job_id, call.line)
                ELSE InsertJob(jobs, [NewJob(call.job_id, "none", 0)
                                         EXCEPT !.log_lines = << call.line >>])
    /\ call' = [call EXCEPT !.step = "time"]
    /\ UNCHANGED << job_order, queueVars, handler, shutdown, wpc, item,
                    exc, logger_handlers, record, emitQ, histVars,
                    readerVars >>
    /\ UNCHANGED configVars

\* job = _jobs.get(job_id); if job: job.log_lines.append(line)
AppendLogLine ==
    /\ call.op = "append" /\ call.step = "append"
    /\ IF call.job_id \in JobIds
       THEN /\ jobs' = AppendLine(jobs, call.job_id, call.line)
            /\ call' = [call EXCEPT !.step = "time"]
       ELSE /\ call' = NoCall
            /\ UNCHANGED jobs
    /\ UNCHANGED << job_order, queueVars, handler, shutdown, wpc, item,
                    exc, logger_handlers, record, emitQ, histVars,
                    readerVars >>
    /\ UNCHANGED configVars

\* job.updated_at = datetime.utcnow()
AppendSetTime ==
    /\ call.op = "append" /\ call.step = "time"
    /\ jobs' = SetUpdatedAt(jobs, call.job_id, utcnow(call.job_id))
    /\ call' = NoCall
    /\ UNCHANGED << job_order, queueVars, handler, shutdown, wpc, item, exc,
                    logger_handlers, record, emitQ, histVars,
                    readerVars >>
    /\ UNCHANGED configVars

----------------------------------------------------------------------------
\* web/main.py: the request handlers and lifespan

\* str(uuid.uuid4()): an id no earlier call returned.
FreshId == Cardinality(JobIds) + 1

\* CreateJob of a create_job that does not store the job it makes.
CreateJob_NoInsert(h) ==
    /\ ~shutdown
    /\ handler[h].pc = "idle"
    /\ h # FirstThread => handler[FirstThread].pc # "idle"
    /\ Cardinality(JobIds) < MaxJobs
    /\ handler' = [handler EXCEPT ![h] =
                       [pc |-> "index", job_id |-> FreshId, mode |-> ModeOf(FreshId)]]
    /\ statusHist' = [statusHist EXCEPT ![FreshId] = << "pending" >>]
    /\ UNCHANGED << jobs, job_order, queueVars, shutdown, workerVars, putOrder,
                    runOrder, emitted, raised, invoked, readerVars >>
    /\ UNCHANGED configVars

\* A request is taken by the first idle thread of the pool. create_job up to
\* _jobs[job_id] = job (called from start_google_takeout,
\* start_automatic_migration, form_google_takeout, form_automatic_migration).
CreateJob(h) ==
    /\ ~shutdown
    /\ handler[h].pc = "idle"
    /\ h # FirstThread => handler[FirstThread].pc # "idle"
    /\ Cardinality(JobIds) < MaxJobs
    /\ jobs' = InsertJob(jobs, NewJob(FreshId, ModeOf(FreshId), Cardinality(JobIds)))
    /\ handler' = [handler EXCEPT ![h] =
                       [pc |-> "index", job_id |-> FreshId, mode |-> ModeOf(FreshId)]]
    /\ statusHist' = [statusHist EXCEPT ![FreshId] = << "pending" >>]
    /\ UNCHANGED << job_order, queueVars, shutdown, workerVars, putOrder,
                    runOrder, emitted, raised, invoked, readerVars >>
    /\ UNCHANGED configVars

\* _job_order.append(job_id); return job
CreateJobIndex(h) ==
    /\ handler[h].pc = "index"
    /\ job_order' = Append(job_order, handler[h].job_id)
    /\ handler' = [handler EXCEPT ![h].pc = "put"]
    /\ UNCHANGED << jobs, queueVars, shutdown, workerVars, histVars,
                    readerVars >>
    /\ UNCHANGED configVars

\* _job_queue.put((job.id, mode, args)); return
Enqueue(h) ==
    /\ handler[h].pc = "put"
    /\ job_queue' = Append(job_queue,
                           [job_id |-> handler[h].job_id,
                            mode |-> handler[h].mode])
    /\ unfinished_tasks' = unfinished_tasks + 1
    /\ putOrder' = Append(putOrder, handler[h].job_id)
    /\ handler' = [handler EXCEPT ![h] = IdleHandler]
    /\ UNCHANGED << storeVars, shutdown, workerVars, statusHist,
                    runOrder, emitted, raised, invoked, readerVars >>
    /\ UNCHANGED configVars

\* lifespan after its yield: _job_queue.put(None). The server runs it once
\* the requests in flight have been answered.
Shutdown ==
    /\ ~shutdown
    /\ \A h \in Handlers : handler[h].pc = "idle"
    /\ job_queue' = Append(job_queue, Sentinel)
    /\ unfinished_tasks' = unfinished_tasks + 1
    /\ shutdown' = TRUE
    /\ UNCHANGED << storeVars, handler, workerVars, histVars,
                    readerVars >>
    /\ UNCHANGED configVars

\* list_jobs_route is read-only; get_job_api and get_job_logs of an unknown id
\* answer 404 and change nothing.
GetJobApi(j) ==
    /\ j \in JobIds
    /\ obs' = [kind |-> "get", job_id |-> j, val |-> ToDict(get_job(j))]
    /\ UNCHANGED << storeVars, queueVars, handler, shutdown, workerVars,
                    histVars, callPre >>
    /\ UNCHANGED configVars

GetJobLogs(j) ==
    /\ j \in JobIds
    /\ obs' = [kind |-> "logs", job_id |-> j, val |-> get_job(j).log_lines]
    /\ UNCHANGED << storeVars, queueVars, handler, shutdown, workerVars,
                    histVars, callPre >>
    /\ UNCHANGED configVars

----------------------------------------------------------------------------
\* web/main.py _worker and web/runner.py run_mode: the worker thread

InRunMode == call.op = "none" /\ emitQ = << >>

\* WorkerGetItem of a queue.LifoQueue: the item put last is taken.
WorkerGetItem_Lifo ==
    /\ wpc = "get" /\ call.op = "none"
    /\ job_queue # << >> /\ job_queue[Len(job_queue)] # Sentinel
    /\ item' = job_queue[Len(job_queue)]
    /\ job_queue' = SubSeq(job_queue, 1, Len(job_queue) - 1)
    /\ wpc' = "run_mode"
    /\ UNCHANGED << storeVars, unfinished_tasks, handler, shutdown, exc,
                    call, logger_handlers, record, emitQ, histVars,
                    readerVars >>
    /\ UNCHANGED configVars

\* item = _job_queue.get(), a (job_id, mode, args_dict) tuple
WorkerGetItem ==
    /\ wpc = "get" /\ call.op = "none"
    /\ job_queue # << >> /\ Head(job_queue) # Sentinel
    /\ item' = Head(job_queue)
    /\ job_queue' = Tail(job_queue)
    /\ wpc' = "run_mode"
    /\ UNCHANGED << storeVars, unfinished_tasks, handler, shutdown, exc,
                    call, logger_handlers, record, emitQ, histVars,
                    readerVars >>
    /\ UNCHANGED configVars

\* item is None: break, then the finally's task_done()
WorkerGetSentinel ==
    /\ wpc = "get" /\ call.op = "none"
    /\ job_queue # << >> /\ Head(job_queue) = Sentinel
    /\ job_queue' = Tail(job_queue)
    /\ unfinished_tasks' = unfinished_tasks - 1
    /\ wpc' = "stopped"
    /\ UNCHANGED << storeVars, handler, shutdown, item, exc, call,
                    logger_handlers, record, emitQ, histVars,
                    readerVars >>
    /\ UNCHANGED configVars

\* WorkerTaskDone of a _worker that leaves its loop after an item.
WorkerTaskDone_Break ==
    /\ wpc = "return" /\ InRunMode
    /\ unfinished_tasks' = unfinished_tasks - 1
    /\ item' = NoItem
    /\ wpc' = "stopped"
    /\ UNCHANGED << storeVars, job_queue, handler, shutdown, exc, call,
                    logger_handlers, record, emitQ, histVars,
                    readerVars >>
    /\ UNCHANGED configVars

\* run_mode returned (it lets no Exception out): finally task_done()
WorkerTaskDone ==
    /\ wpc = "return" /\ InRunMode
    /\ unfinished_tasks' = unfinished_tasks - 1
    /\ item' = NoItem
    /\ wpc' = "get"
    /\ UNCHANGED << storeVars, job_queue, handler, shutdown, exc, call,
                    logger_handlers, record, emitQ, histVars,
                    readerVars >>
    /\ UNCHANGED configVars

Raise(kind, m) ==
    raised' = [raised EXCEPT ![item.job_id] = [kind |-> kind, msg |-> m]]

\* RunModeStart of a run_mode that does not record the job as running.
RunModeStart_Skip ==
    /\ wpc = "run_mode" /\ InRunMode
    /\ wpc' = "prepare"
    /\ UNCHANGED << storeVars, queueVars, handler, shutdown, item, exc, call,
                    logger_handlers, record, emitQ, histVars,
                    readerVars >>
    /\ UNCHANGED configVars

\* jobs.update_job_status(job_id, jobs.JobStatus.RUNNING)
RunModeStart ==
    /\ wpc = "run_mode" /\ InRunMode
    /\ BeginCall(UpdateCall(item.job_id, "running", None, None))
    /\ wpc' = "prepare"
    /\ UNCHANGED << storeVars, queueVars, handler, shutdown, item, exc,
                    logger_handlers, record, emitQ, histVars >>
    /\ UNCHANGED configVars

\* PrepareReject without the update of the status: the handler of the
\* ValueError only returns.
PrepareReject_Silent(m) ==
    /\ wpc = "prepare" /\ InRunMode
    /\ Raise("validation", m)
    /\ wpc' = "return"
    /\ UNCHANGED << storeVars, queueVars, handler, shutdown, item, exc, call,
                    logger_handlers, record, emitQ, statusHist,
                    putOrder, runOrder, emitted, invoked, readerVars >>
    /\ UNCHANGED configVars

\* PrepareReject without the return: the status is set, and run_mode goes on
\* to install the bridge and call the engine.
PrepareReject_NoReturn(m) ==
    /\ wpc = "prepare" /\ InRunMode
    /\ BeginCall(UpdateCall(item.job_id, "failed", Some(m), None))
    /\ Raise("validation", m)
    /\ logger_handlers' = Append(logger_handlers, item.job_id)
    /\ invoked' = invoked \cup {item.job_id}
    /\ wpc' = "engine"
    /\ UNCHANGED << storeVars, queueVars, handler, shutdown, item, exc,
                    record, emitQ, statusHist, putOrder, runOrder,
                    emitted >>
    /\ UNCHANGED configVars

\* checkArgs calls parser.error(msg): ValueError(msg), caught at once:
\* update_job_status(job_id, FAILED, error=str(e)); return
PrepareReject(m) ==
    /\ wpc = "prepare" /\ InRunMode
    /\ BeginCall(UpdateCall(item.job_id, "failed", Some(m), None))
    /\ Raise("validation", m)
    /\ wpc' = "return"
    /\ UNCHANGED << storeVars, queueVars, handler, shutdown, item, exc,
                    logger_handlers, record, emitQ, statusHist,
                    putOrder, runOrder, emitted, invoked >>
    /\ UNCHANGED configVars

\* An import fails, checkArgs raises another Exception than ValueError, or
\* one of the set_* calls raises: to the outer except, no bridge installed.
PrepareFault(m) ==
    /\ wpc = "prepare" /\ InRunMode
    /\ exc' = Some(m)
    /\ Raise("setup", m)
    /\ wpc' = "except"
    /\ UNCHANGED << storeVars, queueVars, handler, shutdown, item, call,
                    logger_handlers, record, emitQ, statusHist,
                    putOrder, runOrder, emitted, invoked, readerVars >>
    /\ UNCHANGED configVars

\* addHandler of a run_mode that installs the bridge on the logger twice.
addHandler_Twice(hs, job_id) == hs \o << job_id, job_id >>

\* GV.LOGGER.addHandler(handler)
addHandler(hs, job_id) == Append(hs, job_id)

\* The imports and checkArgs pass; GV.ARGS = ARGS; set_GLOBAL_VARIABLES();
\* set_LOGGER(); set_HELP_TEXTS(); GV.LOGGER.addHandler(handler); the inner try
\* then calls the engine function of the mode.
PrepareOk ==
    /\ wpc = "prepare" /\ InRunMode
    /\ logger_handlers' = addHandler(logger_handlers, item.job_id)
    /\ invoked' = invoked \cup {item.job_id}
    /\ wpc' = "engine"
    /\ UNCHANGED << storeVars, queueVars, handler, shutdown, item, exc,
                    call, record, emitQ, statusHist, putOrder, runOrder,
                    emitted, raised, readerVars >>
    /\ UNCHANGED configVars

\* logging.Formatter("%(asctime)s [%(levelname)s] %(message)s").format; the
\* time of a record is kept as its ordinal among the records of the run.
Format(r) == ToString(r.created) \o " [" \o r.levelname \o "] " \o r.msg

\* The jobs in hs, each once.
Bound(hs) == { hs[i] : i \in DOMAIN hs }

\* The records the engine has logged so far, over all jobs.
RECURSIVE SumLen(_, _)
SumLen(f, n) == IF n = 0 THEN 0 ELSE Len(f[n]) + SumLen(f, n - 1)
Emissions == SumLen(emitted, MaxJobs)

\* The engine logs a record on GV.LOGGER: it goes to every installed handler.
EngineEmit(r) ==
    /\ wpc = "engine" /\ InRunMode
    /\ Emissions < MaxEmit
    /\ record' = [levelname |-> r.levelname, msg |-> r.msg,
                  args_ok |-> r.args_ok, created |-> Emissions]
    /\ emitQ' = logger_handlers
    /\ emitted' = [emitted EXCEPT ![item.job_id] = Append(@, record')]
    /\ UNCHANGED << storeVars, queueVars, handler, shutdown, wpc, item,
                    exc, call, logger_handlers, statusHist, putOrder,
                    runOrder, raised, invoked, readerVars >>
    /\ UNCHANGED configVars

\* _JobLogHandler.emit: msg = self.format(record); self._append(msg), which
\* is jobs.append_job_log(job_id, msg)
EmitAppend ==
    /\ wpc = "engine" /\ call.op = "none"
    /\ emitQ # << >> /\ record.args_ok
    /\ BeginCall(AppendCall(Head(emitQ), Format(record)))
    /\ emitQ' = Tail(emitQ)
    /\ record' = IF Tail(emitQ) = << >> THEN NoRecord ELSE record
    /\ UNCHANGED << storeVars, queueVars, handler, shutdown, wpc, item,
                    exc, logger_handlers, histVars >>
    /\ UNCHANGED configVars

\* _JobLogHandler.emit: format raises; except Exception: handleError(record)
EmitHandleError ==
    /\ wpc = "engine" /\ call.op = "none"
    /\ emitQ # << >> /\ ~record.args_ok
    /\ emitQ' = Tail(emitQ)
    /\ record' = IF Tail(emitQ) = << >> THEN NoRecord ELSE record
    /\ UNCHANGED << storeVars, queueVars, handler, shutdown, wpc, item,
                    exc, call, logger_handlers, histVars,
                    readerVars >>
    /\ UNCHANGED configVars

\* mode_google_takeout / mode_AUTOMATIC_MIGRATION returns
EngineReturn ==
    /\ wpc = "engine" /\ InRunMode
    /\ wpc' = "finally"
    /\ UNCHANGED << storeVars, queueVars, handler, shutdown, item, exc,
                    call, logger_handlers, record, emitQ, histVars,
                    readerVars >>
    /\ UNCHANGED configVars

\* mode_google_takeout / mode_AUTOMATIC_MIGRATION raises Exception(m)
EngineRaise(m) ==
    /\ wpc = "engine" /\ InRunMode
    /\ exc' = Some(m)
    /\ Raise("engine", m)
    /\ wpc' = "finally"
    /\ UNCHANGED << storeVars, queueVars, handler, shutdown, item, call,
                    logger_handlers, record, emitQ, statusHist,
                    putOrder, runOrder, emitted, invoked, readerVars >>
    /\ UNCHANGED configVars

\* Logger.removeHandler: the first occurrence of the handler leaves the list.
RECURSIVE removeHandler(_, _)
removeHandler(hs, job_id) ==
    IF hs = << >> THEN << >>
    ELSE IF Head(hs) = job_id THEN Tail(hs)
    ELSE << Head(hs) >> \o removeHandler(Tail(hs), job_id)

\* RemoveBridge of a run_mode that removes the handler after the engine call
\* and not in a finally: a raising engine leaves the bridge installed.
RemoveBridge_NoFinally ==
    /\ wpc = "finally" /\ InRunMode
    /\ logger_handlers' = IF exc = None
                          THEN removeHandler(logger_handlers, item.job_id)
                          ELSE logger_handlers
    /\ wpc' = IF exc = None THEN "done" ELSE "except"
    /\ UNCHANGED << storeVars, queueVars, handler, shutdown, item, exc,
                    call, record, emitQ, histVars, readerVars >>
    /\ UNCHANGED configVars

\* finally: GV.LOGGER.removeHandler(handler)
RemoveBridge ==
    /\ wpc = "finally" /\ InRunMode
    /\ logger_handlers' = removeHandler(logger_handlers, item.job_id)
    /\ wpc' = IF exc = None THEN "done" ELSE "except"
    /\ UNCHANGED << storeVars, queueVars, handler, shutdown, item, exc,
                    call, record, emitQ, histVars, readerVars >>
    /\ UNCHANGED configVars

\* jobs.update_job_status(job_id, DONE, result_summary="Completed successfully")
RunModeDone ==
    /\ wpc = "done" /\ InRunMode
    /\ BeginCall(UpdateCall(item.job_id, "done", None,
                            Some("Completed successfully")))
    /\ wpc' = "return"
    /\ UNCHANGED << storeVars, queueVars, handler, shutdown, item, exc,
                    logger_handlers, record, emitQ, histVars >>
    /\ UNCHANGED configVars

\* ErrorLine without the exception's text.
ErrorLine_Fixed(m) == "Error"

\* f"Error: {e}"
ErrorLine(m) == "Error: " \o m

\* ExceptLog of an except clause that records the failure before it logs it.
ExceptLog_StatusFirst ==
    /\ wpc = "except" /\ InRunMode
    /\ BeginCall(UpdateCall(item.job_id, "failed", Some(exc[1]), None))
    /\ wpc' = "except_status"
    /\ UNCHANGED << storeVars, queueVars, handler, shutdown, item, exc,
                    logger_handlers, record, emitQ, histVars >>
    /\ UNCHANGED configVars

\* except Exception as e: j.append_job_log(job_id, f"Error: {e}")
ExceptLog ==
    /\ wpc = "except" /\ InRunMode
    /\ BeginCall(AppendCall(item.job_id, ErrorLine(exc[1])))
    /\ wpc' = "except_status"
    /\ UNCHANGED << storeVars, queueVars, handler, shutdown, item, exc,
                    logger_handlers, record, emitQ, histVars >>
    /\ UNCHANGED configVars

\* ExceptStatus of a run_mode that re-raises, under a _worker whose loop has
\* no except: the thread ends.
ExceptStatus_Reraise ==
    /\ wpc = "except_status" /\ InRunMode
    /\ BeginCall(UpdateCall(item.job_id, "failed", Some(exc[1]), None))
    /\ exc' = None
    /\ wpc' = "stopped"
    /\ UNCHANGED << storeVars, queueVars, handler, shutdown, item,
                    logger_handlers, record, emitQ, histVars >>
    /\ UNCHANGED configVars

\* j.update_job_status(job_id, j.JobStatus.FAILED, error=str(e))
ExceptStatus ==
    /\ wpc = "except_status" /\ InRunMode
    /\ BeginCall(UpdateCall(item.job_id, "failed", Some(exc[1]), None))
    /\ exc' = None
    /\ wpc' = "return"
    /\ UNCHANGED << storeVars, queueVars, handler, shutdown, item,
                    logger_handlers, record, emitQ, histVars >>
    /\ UNCHANGED configVars

----------------------------------------------------------------------------
AllIds == 1 .. MaxJobs

Init ==
    /\ jobs = [j \in {} |-> NoJob]
    /\ job_order = << >>
    /\ job_queue = << >>
    /\ unfinished_tasks = 0
    /\ handler = [h \in Handlers |-> IdleHandler]
    /\ shutdown = FALSE
    /\ wpc = "get"
    /\ item = NoItem
    /\ exc = None
    /\ call = NoCall
    /\ logger_handlers = << >>
    /\ record = NoRecord
    /\ emitQ = << >>
    /\ statusHist = [j \in AllIds |-> << >>]
    /\ putOrder = << >>
    /\ runOrder = << >>
    /\ emitted = [j \in AllIds |-> << >>]
    /\ raised = [j \in AllIds |-> [kind |-> "none", msg |-> ""]]
    /\ invoked = {}
    /\ obs = NoObs
    /\ callPre = NoJob
    /\ form_data = << >>
    /\ config_file = [exists |-> FALSE, readable |-> FALSE, lines |-> << >>]
    /\ served = << >>

Next ==
    \/ \E h \in Handlers : CreateJob(h)
    \/ \E h \in Handlers : CreateJobIndex(h)
    \/ \E h \in Handlers : Enqueue(h)
    \/ Shutdown
    \/ WorkerGetItem
    \/ WorkerGetSentinel
    \/ WorkerTaskDone
    \/ RunModeStart
    \/ PrepareOk
    \/ \E m \in ValidationMsgs : PrepareReject(m)
    \/ \E m \in SetupMsgs : PrepareFault(m)
    \/ \E r \in Records : EngineEmit(r)
    \/ EmitAppend
    \/ EmitHandleError
    \/ EngineReturn
    \/ \E m \in FaultMsgs : EngineRaise(m)
    \/ RemoveBridge
    \/ RunModeDone
    \/ ExceptLog
    \/ ExceptStatus
    \/ UpdateSetStatus
    \/ UpdateSetTime
    \/ UpdateSetError
    \/ UpdateSetSummary
    \/ AppendLogLine
    \/ AppendSetTime

Spec == Init /\ [][Next]_vars

\* The steps of the worker thread but the engine's logging of one more
\* record: the thread is scheduled, and the validation call and the engine
\* invocation return or raise.
WorkerStep ==
    \/ WorkerGetItem
    \/ WorkerGetSentinel
    \/ WorkerTaskDone
    \/ RunModeStart
    \/ PrepareOk
    \/ \E m \in ValidationMsgs : PrepareReject(m)
    \/ \E m \in SetupMsgs : PrepareFault(m)
    \/ EmitAppend
    \/ EmitHandleError
    \/ EngineReturn
    \/ \E m \in FaultMsgs : EngineRaise(m)
    \/ RemoveBridge
    \/ RunModeDone
    \/ ExceptLog
    \/ ExceptStatus
    \/ UpdateSetStatus
    \/ UpdateSetTime
    \/ UpdateSetError
    \/ UpdateSetSummary
    \/ AppendLogLine
    \/ AppendSetTime

\* The program with an engine whose records all format, and a worker
\* thread that is never starved.
NextLive ==
    \/ \E h \in Handlers : CreateJob(h)
    \/ \E h \in Handlers : CreateJobIndex(h)
    \/ \E h \in Handlers : Enqueue(h)
    \/ Shutdown
    \/ \E r \in {r \in Records : r.args_ok} : EngineEmit(r)
    \/ WorkerGetItem
    \/ WorkerGetSentinel
    \/ WorkerTaskDone
    \/ RunModeStart
    \/ PrepareOk
    \/ \E m \in ValidationMsgs : PrepareReject(m)
    \/ \E m \in SetupMsgs : PrepareFault(m)
    \/ EmitAppend
    \/ EngineReturn
    \/ \E m \in FaultMsgs : EngineRaise(m)
    \/ RemoveBridge
    \/ RunModeDone
    \/ ExceptLog
    \/ ExceptStatus
    \/ UpdateSetStatus
    \/ UpdateSetTime
    \/ UpdateSetError
    \/ UpdateSetSummary
    \/ AppendLogLine
    \/ AppendSetTime

SpecLive == Init /\ [][NextLive]_vars /\ WF_vars(WorkerStep)

\* The same program with clients polling get_job_api and get_job_logs.
Read ==
    \/ \E j \in AllIds : GetJobApi(j)
    \/ \E j \in AllIds : GetJobLogs(j)

NextRead == Next \/ Read

SpecRead == Init /\ [][NextRead]_vars

----------------------------------------------------------------------------
\* web/jobs.py called directly: the store under any caller of
\* update_job_status, append_job_log and get_job.

\* Bounds of the direct calls.
MaxCalls == 2
MaxLimit == 3

\* list_jobs(limit: int = 50), list_jobs_route(limit: int = 50)
DefaultLimit == 50

\* class JobStatus
JobStatus == {"pending", "running", "done", "failed"}

\* The arguments a caller passes.
ErrorArgs == {None, Some("boom")}
SummaryArgs == {None, Some("ok")}
LineArgs == {"line"}
\* The ids create_job can return and one it never returned.
CallIds == 1 .. MaxJobs + 1
Limits == (-MaxLimit .. MaxLimit) \cup {DefaultLimit}

\* The refreshes of updated_at made so far, over the jobs 1 .. n.
RECURSIVE Refreshes(_)
Refreshes(n) ==
    IF n = 0 THEN 0
    ELSE (IF n \in JobIds THEN jobs[n].updated_at - jobs[n].created_at ELSE 0)
         + Refreshes(n - 1)

\* Python's seq[start:] for any integer start.
SliceFrom(s, start) ==
    LET n == Len(s)
        lo == IF start < 0 THEN (IF n + start < 0 THEN 0 ELSE n + start)
              ELSE (IF start > n THEN n ELSE start)
    IN  SubSeq(s, lo + 1, n)

\* Reversed that leaves the order as it is.
Reversed_Same(s) == s

\* seq[::-1]
Reversed(s) == [i \in 1 .. Len(s) |-> s[Len(s) + 1 - i]]

InStore(jid) == jid \in JobIds

\* list_jobs
list_jobs(limit) ==
    LET order == IF limit # 0 THEN SliceFrom(job_order, -limit) ELSE job_order
        ids == SelectSeq(Reversed(order), InStore)
    IN  [i \in 1 .. Len(ids) |-> jobs[ids[i]]]

\* A caller enters update_job_status(job_id, status, error, result_summary).
CallUpdate(job_id, status, error, summary) ==
    /\ call = NoCall
    /\ Refreshes(MaxJobs) < MaxCalls
    /\ BeginCall(UpdateCall(job_id, status, error, summary))
    /\ UNCHANGED << storeVars, queueVars, handler, shutdown, wpc, item, exc,
                    logger_handlers, record, emitQ, histVars >>
    /\ UNCHANGED configVars

\* A caller enters append_job_log(job_id, line).
CallAppend(job_id, line) ==
    /\ call = NoCall
    /\ Refreshes(MaxJobs) < MaxCalls
    /\ BeginCall(AppendCall(job_id, line))
    /\ UNCHANGED << storeVars, queueVars, handler, shutdown, wpc, item, exc,
                    logger_handlers, record, emitQ, histVars >>
    /\ UNCHANGED configVars

\* get_job of an id that is not in _jobs returns None; get_job_api and
\* get_job_logs answer 404.
GetJobMissing(job_id) ==
    /\ job_id \notin JobIds
    /\ get_job(job_id) = NoJob
    /\ obs' = [kind |-> "absent", job_id |-> job_id, val |-> << >>]
    /\ UNCHANGED << storeVars, queueVars, handler, shutdown, workerVars,
                    histVars, callPre >>
    /\ UNCHANGED configVars

\* list_jobs_route: [j.to_dict() for j in jobs.list_jobs(limit=limit)]
ListJobsRoute(limit) ==
    /\ obs' = [kind |-> "list", job_id |-> 0, limit |-> limit,
               val |-> [i \in 1 .. Len(list_jobs(limit)) |->
                            ToDict(list_jobs(limit)[i])]]
    /\ UNCHANGED << storeVars, queueVars, handler, shutdown, workerVars,
                    histVars, callPre >>
    /\ UNCHANGED configVars

\* The store once MaxJobs requests have been answered, one after the other,
\* and before the worker has taken an item.
InitStore ==
    /\ jobs = [j \in AllIds |-> NewJob(j, ModeOf(j), j - 1)]
    /\ job_order = [j \in AllIds |-> j]
    /\ job_queue = [j \in AllIds |-> [job_id |-> j, mode |-> ModeOf(j)]]
    /\ unfinished_tasks = MaxJobs
    /\ handler = [h \in Handlers |-> IdleHandler]
    /\ shutdown = FALSE
    /\ wpc = "get"
    /\ item = NoItem
    /\ exc = None
    /\ call = NoCall
    /\ logger_handlers = << >>
    /\ record = NoRecord
    /\ emitQ = << >>
    /\ statusHist = [j \in AllIds |-> << "pending" >>]
    /\ putOrder = [j \in AllIds |-> j]
    /\ runOrder = << >>
    /\ emitted = [j \in AllIds |-> << >>]
    /\ raised = [j \in AllIds |-> [kind |-> "none", msg |-> ""]]
    /\ invoked = {}
    /\ obs = NoObs
    /\ callPre = NoJob
    /\ form_data = << >>
    /\ config_file = [exists |-> FALSE, readable |-> FALSE, lines |-> << >>]
    /\ served = << >>

NextStore ==
    \/ \E j \in CallIds, s \in JobStatus, e \in ErrorArgs, r \in SummaryArgs :
           CallUpdate(j, s, e, r)
    \/ \E j \in CallIds, l \in LineArgs : CallAppend(j, l)
    \/ UpdateSetStatus
    \/ UpdateSetTime
    \/ UpdateSetError
    \/ UpdateSetSummary
    \/ AppendLogLine
    \/ AppendSetTime
    \/ \E j \in CallIds : GetJobMissing(j)

SpecStore == InitStore /\ [][NextStore]_vars

\* The request handlers that create jobs, and clients listing the jobs.
NextList ==
    \/ \E h \in Handlers : CreateJob(h)
    \/ \E h \in Handlers : CreateJobIndex(h)
    \/ \E h \in Handlers : Enqueue(h)
    \/ \E n \in Limits : ListJobsRoute(n)

SpecList == Init /\ [][NextList]_vars

----------------------------------------------------------------------------
\* web/config_ini.py and the configuration handlers of web/main.py
\*
\* A str is kept as the sequence of its words and of the single characters
\* between them ("Apple Photos" is << "Apple", " ", "Photos" >>), a text as
\* the sequence of its lines.

\* Bounds of the configuration inputs.
MaxLen == 2
MaxFileLines == 3

FORM_SEP == "||"

\* The characters of a submitted value, and the values of at most MaxLen of
\* them: a letter, the blank and the comment marker. A value is one line.
Chars == {"a", " ", "#"}
Values == UNION {[1 .. n -> Chars] : n \in 0 .. MaxLen}

Max(S) == CHOOSE x \in S : \A y \in S : y <= x

\* str.strip, str.find (of the first of the characters cs), str.replace,
\* str.startswith
IsSpace(c) == c \in {" ", "\n"}

RECURSIVE lstrip(_)
lstrip(s) == IF s # << >> /\ IsSpace(Head(s)) THEN lstrip(Tail(s)) ELSE s

RECURSIVE rstrip(_)
rstrip(s) ==
    IF s # << >> /\ IsSpace(s[Len(s)])
    THEN rstrip(SubSeq(s, 1, Len(s) - 1)) ELSE s

strip(s) == rstrip(lstrip(s))

find(s, cs) ==
    IF \E i \in DOMAIN s : s[i] \in cs
    THEN (CHOOSE i \in DOMAIN s :
              s[i] \in cs /\ \A k \in 1 .. i - 1 : s[k] \notin cs) - 1
    ELSE -1

replace(s, old, new) == [i \in DOMAIN s |-> IF s[i] = old THEN new ELSE s[i]]

startswith(s, p) == Len(s) >= Len(p) /\ SubSeq(s, 1, Len(p)) = p

\* sub in s
HasSub(s, sub) ==
    \E i \in 1 .. Len(s) - Len(sub) + 1 : SubSeq(s, i, i + Len(sub) - 1) = sub

\* str.upper of a word
upper(w) ==
    CASE w = "Api" -> "API"
      [] w = "Key" -> "KEY"
      [] w = "album" -> "ALBUM"
      [] w = "appleid" -> "APPLEID"
      [] w = "applepwd" -> "APPLEPWD"
      [] w = "asset" -> "ASSET"
      [] w = "date" -> "DATE"
      [] w = "directory" -> "DIRECTORY"
      [] w = "from" -> "FROM"
      [] w = "library" -> "LIBRARY"
      [] w = "max" -> "MAX"
      [] w = "photos" -> "PHOTOS"
      [] w = "shared" -> "SHARED"
      [] w = "timezone" -> "TIMEZONE"
      [] w = "to" -> "TO"
      [] OTHER -> w

\* _strip_inline_comment
strip_inline_comment(value) ==
    IF value = << >> THEN value
    ELSE LET i == find(value, {"#"})
         IN  strip(IF i >= 0 THEN SubSeq(value, 1, i) ELSE value)

\* SECTION_HINTS and OPTION_HINTS: the sections and the options that have a
\* help text (the text itself is kept as the word "help" and the name).

SECTION_HINTS ==
    { << "Google", " ", "Takeout" >>,
      << "Synology", " ", "Photos" >>,
      << "Immich", " ", "Photos" >>,
      << "Apple", " ", "Photos" >>,
      << "Google", " ", "Photos" >>,
      << "TimeZone" >> }

OPTION_HINTS ==
    { << << "Synology", " ", "Photos" >>, << "SYNOLOGY", "_", "URL" >> >>,
      << << "Synology", " ", "Photos" >>, << "SYNOLOGY", "_", "USERNAME", "_", "1" >> >>,
      << << "Synology", " ", "Photos" >>, << "SYNOLOGY", "_", "PASSWORD", "_", "1" >> >>,
      << << "Synology", " ", "Photos" >>, << "SYNOLOGY", "_", "USERNAME", "_", "2" >> >>,
      << << "Synology", " ", "Photos" >>, << "SYNOLOGY", "_", "PASSWORD", "_", "2" >> >>,
      << << "Synology", " ", "Photos" >>, << "SYNOLOGY", "_", "USERNAME", "_", "3" >> >>,
      << << "Synology", " ", "Photos" >>, << "SYNOLOGY", "_", "PASSWORD", "_", "3" >> >>,
      << << "Immich", " ", "Photos" >>, << "IMMICH", "_", "URL" >> >>,
      << << "Immich", " ", "Photos" >>, << "IMMICH", "_", "API", "_", "KEY", "_", "ADMIN" >> >>,
      << << "Immich", " ", "Photos" >>, << "IMMICH", "_", "API", "_", "KEY", "_", "USER", "_", "1" >> >>,
      << << "Immich", " ", "Photos" >>, << "IMMICH", "_", "USERNAME", "_", "1" >> >>,
      << << "Immich", " ", "Photos" >>, << "IMMICH", "_", "PASSWORD", "_", "1" >> >>,
      << << "Immich", " ", "Photos" >>, << "IMMICH", "_", "API", "_", "KEY", "_", "USER", "_", "2" >> >>,
      << << "Immich", " ", "Photos" >>, << "IMMICH", "_", "USERNAME", "_", "2" >> >>,
      << << "Immich", " ", "Photos" >>, << "IMMICH", "_", "PASSWORD", "_", "2" >> >>,
      << << "Immich", " ", "Photos" >>, << "IMMICH", "_", "API", "_", "KEY", "_", "USER", "_", "3" >> >>,
      << << "Immich", " ", "Photos" >>, << "IMMICH", "_", "USERNAME", "_", "3" >> >>,
      << << "Immich", " ", "Photos" >>, << "IMMICH", "_", "PASSWORD", "_", "3" >> >>,
      << << "Apple", " ", "Photos" >>, << "appleid" >> >>,
      << << "Apple", " ", "Photos" >>, << "applepwd" >> >>,
      << << "Apple", " ", "Photos" >>, << "album" >> >>,
      << << "Apple", " ", "Photos" >>, << "to", "_", "directory" >> >>,
      << << "Apple", " ", "Photos" >>, << "date", "_", "from" >> >>,
      << << "Apple", " ", "Photos" >>, << "date", "_", "to" >> >>,
      << << "Apple", " ", "Photos" >>, << "asset", "_", "from" >> >>,
      << << "Apple", " ", "Photos" >>, << "asset", "_", "to" >> >>,
      << << "Apple", " ", "Photos" >>, << "max", "_", "photos" >> >>,
      << << "Apple", " ", "Photos" >>, << "shared", "_", "library" >> >>,
      << << "TimeZone" >>, << "timezone" >> >> }

\* _get_option_hint, _get_section_hint
get_option_hint(section, key) ==
    IF << section, key >> \in OPTION_HINTS THEN << "help" >> \o key ELSE << >>

get_section_hint(section) ==
    IF section \in SECTION_HINTS THEN << "help" >> \o section ELSE << >>

\* _is_password_key that compares the key as it is written.
is_password_key_AsWritten(key) ==
    \/ HasSub(key, << "PASSWORD" >>)
    \/ HasSub(key, << "API", "_", "KEY" >>)
    \/ HasSub(key, << "SECRET" >>)
    \/ key = << "APPLEPWD" >>

\* _is_password_key
is_password_key(key) ==
    LET k == [i \in DOMAIN key |-> upper(key[i])]
    IN  \/ HasSub(k, << "PASSWORD" >>)
        \/ HasSub(k, << "API", "_", "KEY" >>)
        \/ HasSub(k, << "SECRET" >>)
        \/ k = << "APPLEPWD" >>

\* _section_to_form, _form_to_section
section_to_form(section) == replace(section, " ", "_")
form_to_section(form_section) == replace(form_section, "_", " ")

\* The dicts of a section and of an option.
Section(name, options) ==
    [name |-> name, form_section |-> section_to_form(name),
     hint |-> get_section_hint(name), options |-> options]

Option(section, key, value, is_password) ==
    [key |-> key, value |-> value, is_password |-> is_password,
     form_section |-> section_to_form(section),
     hint |-> get_option_hint(section, key)]

\* _default_sections_structure: the registry.
default_sections_structure ==
    <<
      Section(<< "Google", " ", "Takeout" >>, << >>),
      Section(<< "Synology", " ", "Photos" >>,
         <<
           Option(<< "Synology", " ", "Photos" >>, << "SYNOLOGY", "_", "URL" >>, << >>, FALSE),
           Option(<< "Synology", " ", "Photos" >>, << "SYNOLOGY", "_", "USERNAME", "_", "1" >>, << >>, FALSE),
           Option(<< "Synology", " ", "Photos" >>, << "SYNOLOGY", "_", "PASSWORD", "_", "1" >>, << >>, TRUE),
           Option(<< "Synology", " ", "Photos" >>, << "SYNOLOGY", "_", "USERNAME", "_", "2" >>, << >>, FALSE),
           Option(<< "Synology", " ", "Photos" >>, << "SYNOLOGY", "_", "PASSWORD", "_", "2" >>, << >>, TRUE),
           Option(<< "Synology", " ", "Photos" >>, << "SYNOLOGY", "_", "USERNAME", "_", "3" >>, << >>, FALSE),
           Option(<< "Synology", " ", "Photos" >>, << "SYNOLOGY", "_", "PASSWORD", "_", "3" >>, << >>, TRUE)
         >>),
      Section(<< "Immich", " ", "Photos" >>,
         <<
           Option(<< "Immich", " ", "Photos" >>, << "IMMICH", "_", "URL" >>, << >>, FALSE),
           Option(<< "Immich", " ", "Photos" >>, << "IMMICH", "_", "API", "_", "KEY", "_", "ADMIN" >>, << >>, TRUE),
           Option(<< "Immich", " ", "Photos" >>, << "IMMICH", "_", "API", "_", "KEY", "_", "USER", "_", "1" >>, << >>, TRUE),
           Option(<< "Immich", " ", "Photos" >>, << "IMMICH", "_", "USERNAME", "_", "1" >>, << >>, FALSE),
           Option(<< "Immich", " ", "Photos" >>, << "IMMICH", "_", "PASSWORD", "_", "1" >>, << >>, TRUE),
           Option(<< "Immich", " ", "Photos" >>, << "IMMICH", "_", "API", "_", "KEY", "_", "USER", "_", "2" >>, << >>, TRUE),
           Option(<< "Immich", " ", "Photos" >>, << "IMMICH", "_", "USERNAME", "_", "2" >>, << >>, FALSE),
           Option(<< "Immich", " ", "Photos" >>, << "IMMICH", "_", "PASSWORD", "_", "2" >>, << >>, TRUE),
           Option(<< "Immich", " ", "Photos" >>, << "IMMICH", "_", "API", "_", "KEY", "_", "USER", "_", "3" >>, << >>, TRUE),
           Option(<< "Immich", " ", "Photos" >>, << "IMMICH", "_", "USERNAME", "_", "3" >>, << >>, FALSE),
           Option(<< "Immich", " ", "Photos" >>, << "IMMICH", "_", "PASSWORD", "_", "3" >>, << >>, TRUE)
         >>),
      Section(<< "Apple", " ", "Photos" >>,
         <<
           Option(<< "Apple", " ", "Photos" >>, << "appleid" >>, << >>, FALSE),
           Option(<< "Apple", " ", "Photos" >>, << "applepwd" >>, << >>, TRUE),
           Option(<< "Apple", " ", "Photos" >>, << "album" >>, << "all" >>, FALSE),
           Option(<< "Apple", " ", "Photos" >>, << "to", "_", "directory" >>, << >>, FALSE),
           Option(<< "Apple", " ", "Photos" >>, << "date", "_", "from" >>, << >>, FALSE),
           Option(<< "Apple", " ", "Photos" >>, << "date", "_", "to" >>, << >>, FALSE),
           Option(<< "Apple", " ", "Photos" >>, << "asset", "_", "from" >>, << >>, FALSE),
           Option(<< "Apple", " ", "Photos" >>, << "asset", "_", "to" >>, << >>, FALSE),
           Option(<< "Apple", " ", "Photos" >>, << "max", "_", "photos" >>, << "10000" >>, FALSE),
           Option(<< "Apple", " ", "Photos" >>, << "shared", "_", "library" >>, << "PrimarySync" >>, FALSE)
         >>),
      Section(<< "Google", " ", "Photos" >>, << >>),
      Section(<< "TimeZone" >>,
         <<
           Option(<< "TimeZone" >>, << "timezone" >>, << "US/Central" >>, FALSE)
         >>)
    >>

\* configparser.ConfigParser.read of a text whose lines are given: the
\* sections in file order, each with its options in file order, the options
\* of [DEFAULT], and whether the text was rejected (a line before any
\* section header, a line without = or :, a section or an option twice).
NoParser ==
    [sections |-> << >>, defaults |-> << >>, cursect |-> 0, optname |-> FALSE,
     indent_level |-> 0, failed |-> FALSE]

Indent(line) == Len(line) - Len(lstrip(line))

\* The last "]" of a stripped line that starts with "[", 0 if there is none
\* that closes a name of at least one character.
HeaderEnd(value) ==
    LET I == {i \in 3 .. Len(value) : value[i] = "]"}
    IN  IF value # << >> /\ Head(value) = "[" /\ I # {} THEN Max(I) ELSE 0

KeysOf(options) == {options[i].key : i \in DOMAIN options}
NamesOf(sections) == {sections[i].name : i \in DOMAIN sections}

\* The options the parser is adding to: those of [DEFAULT] (cursect -1) or
\* those of the section last opened.
CurrentOptions(cp) ==
    IF cp.cursect = -1 THEN cp.defaults ELSE cp.sections[cp.cursect].options

WithOptions(cp, options) ==
    IF cp.cursect = -1 THEN [cp EXCEPT !.defaults = options]
    ELSE [cp EXCEPT !.sections[cp.cursect].options = options]

ReadHeader(cp, value) ==
    LET sectname == SubSeq(value, 2, HeaderEnd(value) - 1)
    IN  IF sectname \in NamesOf(cp.sections)
        THEN [cp EXCEPT !.failed = TRUE]
        ELSE IF sectname = << "DEFAULT" >>
        THEN [cp EXCEPT !.cursect = -1, !.optname = FALSE]
        ELSE [cp EXCEPT
                 !.sections = Append(@, [name |-> sectname, options |-> << >>]),
                 !.cursect = Len(cp.sections) + 1,
                 !.optname = FALSE]

ReadOption(cp, value) ==
    LET i == find(value, {"=", ":"})
        key == rstrip(SubSeq(value, 1, i))
        val == strip(SubSeq(value, i + 2, Len(value)))
    IN  IF i < 0 \/ key = << >> \/ key \in KeysOf(CurrentOptions(cp))
        THEN [cp EXCEPT !.failed = TRUE]
        ELSE [WithOptions(cp, Append(CurrentOptions(cp),
                                     [key |-> key, value |-> val]))
                 EXCEPT !.optname = TRUE]

\* A line that is indented deeper than the option before it continues the
\* value of that option.
ReadContinuation(cp, value) ==
    LET options == CurrentOptions(cp)
        n == Len(options)
    IN  WithOptions(cp, [options EXCEPT
                            ![n].value = rstrip(@ \o << "\n" >> \o value)])

ReadLine(cp, line) ==
    LET value == strip(line)
    IN  IF cp.failed \/ value = << >> \/ Head(value) \in {"#", ";"} THEN cp
        ELSE IF cp.cursect # 0 /\ cp.optname /\ Indent(line) > cp.indent_level
        THEN ReadContinuation(cp, value)
        ELSE IF HeaderEnd(value) > 0
        THEN ReadHeader([cp EXCEPT !.indent_level = Indent(line)], value)
        ELSE IF cp.cursect = 0 THEN [cp EXCEPT !.failed = TRUE]
        ELSE ReadOption([cp EXCEPT !.indent_level = Indent(line)], value)

RECURSIVE ReadLines(_, _)
ReadLines(cp, lines) ==
    IF lines = << >> THEN cp
    ELSE LET next == ReadLine(cp, Head(lines))
         IN  IF next.failed THEN next ELSE ReadLines(next, Tail(lines))

RECURSIVE NotIn(_, _)
\* cp.options(section): the section's own options, then those of [DEFAULT]
\* it does not have; cp.get(section, key, raw=True) is the value kept there.
NotIn(options, defaults) ==
    IF defaults = << >> THEN << >>
    ELSE LET rest == NotIn(options, Tail(defaults))
         IN  IF Head(defaults).key \in KeysOf(options) THEN rest
             ELSE << Head(defaults) >> \o rest

OptionsOf(cp, i) ==
    cp.sections[i].options \o NotIn(cp.sections[i].options, cp.defaults)

\* The file Config.ini: absent, or a text, which the server may open for
\* reading or not.
NoFile == [exists |-> FALSE, readable |-> FALSE, lines |-> << >>]
File(lines) == [exists |-> TRUE, readable |-> TRUE, lines |-> lines]

\* parse_config that keeps the sections read before the text was rejected.
parse_config_Partial(path) ==
    LET cp == IF path.readable THEN ReadLines(NoParser, path.lines)
              ELSE NoParser
        sections_out ==
            [i \in DOMAIN cp.sections |->
                LET section == cp.sections[i].name
                    options == OptionsOf(cp, i)
                IN  Section(section,
                        [k \in DOMAIN options |->
                            Option(section, options[k].key,
                                   strip_inline_comment(options[k].value),
                                   is_password_key(options[k].key))])]
    IN  IF ~path.exists \/ sections_out = << >>
        THEN default_sections_structure
        ELSE sections_out

\* parse_config; cp.read(path) skips a file it cannot open.
parse_config(path) ==
    LET cp == IF path.readable THEN ReadLines(NoParser, path.lines)
              ELSE NoParser
        sections_out ==
            [i \in DOMAIN cp.sections |->
                LET section == cp.sections[i].name
                    options == OptionsOf(cp, i)
                IN  Section(section,
                        [k \in DOMAIN options |->
                            Option(section, options[k].key,
                                   strip_inline_comment(options[k].value),
                                   is_password_key(options[k].key))])]
    IN  IF ~path.exists \/ cp.failed \/ sections_out = << >>
        THEN default_sections_structure
        ELSE sections_out

\* by_name[name]: the last of the parsed sections of that name, if any.
ByName(parsed, name) ==
    LET I == {i \in DOMAIN parsed : parsed[i].name = name}
    IN  IF I = {} THEN << >> ELSE << parsed[Max(I)] >>

\* MergedValue that marks the value it takes from the file.
MergedValue_Mark(options, key, default) ==
    LET I == {i \in DOMAIN options : options[i].key = key}
    IN  IF I = {} THEN default ELSE options[Max(I)].value \o << "a" >>

\* MergedValue that takes the value of the option at the same place of the
\* file's section.
MergedValue_ByPlace(options, key, default) ==
    LET I == {i \in DOMAIN options : options[i].key = key}
    IN  IF I = {} THEN default ELSE options[1].value

\* schema_keys[k["key"]]["value"] = k["value"], for each k of the file's
\* section in order: the value of the last option of that key, if any.
MergedValue(options, key, default) ==
    LET I == {i \in DOMAIN options : options[i].key = key}
    IN  IF I = {} THEN default ELSE options[Max(I)].value

\* _merge_parsed_with_schema
merge_parsed_with_schema(parsed, schema) ==
    [i \in DOMAIN schema |->
        LET name == schema[i].name
            found == ByName(parsed, name)
        IN  [name |-> name, form_section |-> section_to_form(name),
             hint |-> get_section_hint(name),
             options |->
                 [k \in DOMAIN schema[i].options |->
                     [schema[i].options[k] EXCEPT
                         !.value = IF found = << >> THEN @
                                   ELSE MergedValue(found[1].options,
                                                    schema[i].options[k].key, @),
                         !.form_section = section_to_form(name)]]]]

\* parse_config_with_schema
parse_config_with_schema(path) ==
    IF ~path.exists THEN default_sections_structure
    ELSE merge_parsed_with_schema(parse_config(path),
                                  default_sections_structure)

\* form_field_name
form_field_name(form_section, key) ==
    << "v", FORM_SEP >> \o form_section \o << FORM_SEP >> \o key

\* build_ini_from_form, the fields of the form that are collected: those
\* that start with the prefix and have a FORM_SEP after it.
Collectable(field) ==
    /\ startswith(field.name, << "v", FORM_SEP >>)
    /\ find(SubSeq(field.name, 3, Len(field.name)), {FORM_SEP}) >= 0

\* Collect that keeps the blanks around the value.
Collect_NoStrip(field) ==
    LET rest == SubSeq(field.name, 3, Len(field.name))
        i == find(rest, {FORM_SEP})
    IN  [section |-> form_to_section(SubSeq(rest, 1, i)),
         key |-> SubSeq(rest, i + 2, Len(rest)),
         value |-> field.value]

\* rest.split(FORM_SEP, 1); _form_to_section; (value or "").strip()
Collect(field) ==
    LET rest == SubSeq(field.name, 3, Len(field.name))
        i == find(rest, {FORM_SEP})
    IN  [section |-> form_to_section(SubSeq(rest, 1, i)),
         key |-> SubSeq(rest, i + 2, Len(rest)),
         value |-> strip(field.value)]

Collected(form) ==
    LET fields == SelectSeq(form, Collectable)
    IN  [i \in DOMAIN fields |-> Collect(fields[i])]

\* value_by_section_key.get(name, {}).get(k, ""): dict(pairs) keeps the last
\* value collected for the key.
FormValue(collected, name, k) ==
    LET I == {i \in DOMAIN collected :
                  collected[i].section = name /\ collected[i].key = k}
    IN  IF I = {} THEN << >> ELSE collected[Max(I)].value

\* The lines build_ini_from_form appends for the sections from the i-th on.
RECURSIVE SectionLines(_, _, _)
SectionLines(schema, collected, i) ==
    IF i > Len(schema) THEN << >>
    ELSE LET name == schema[i].name
             options == schema[i].options
         IN  << << "[" >> \o name \o << "]" >> >>
             \o [k \in DOMAIN options |->
                    options[k].key \o << " ", "=", " " >>
                    \o FormValue(collected, name, options[k].key)]
             \o << << >> >>
             \o SectionLines(schema, collected, i + 1)

\* "\n".join(lines).strip() + "\n": the blank lines at both ends leave, and
\* the blanks at the start of the first line and at the end of the last.
RECURSIVE DropBlankHead(_)
DropBlankHead(lines) ==
    IF lines # << >> /\ strip(Head(lines)) = << >>
    THEN DropBlankHead(Tail(lines)) ELSE lines

RECURSIVE DropBlankTail(_)
DropBlankTail(lines) ==
    IF lines # << >> /\ strip(lines[Len(lines)]) = << >>
    THEN DropBlankTail(SubSeq(lines, 1, Len(lines) - 1)) ELSE lines

StripText(lines) ==
    LET ls == DropBlankTail(DropBlankHead(lines))
    IN  [i \in DOMAIN ls |->
            LET l == IF i = 1 THEN lstrip(ls[i]) ELSE ls[i]
            IN  IF i = Len(ls) THEN rstrip(l) ELSE l]

\* build_ini_from_form
build_ini_from_form(form) ==
    StripText(<< << "#", " ", "Config.ini", " ", "File" >>, << >> >>
              \o SectionLines(default_sections_structure,
                              Collected(form), 1))

\* web/main.py: config_page and config_save, and the owner of Config.ini
\* editing the file by hand.

\* The fields of the form config_page renders: one per registry option.
RECURSIVE RegistryFields(_)
RegistryFields(i) ==
    IF i > Len(default_sections_structure) THEN << >>
    ELSE LET sect == default_sections_structure[i]
         IN  [k \in DOMAIN sect.options |->
                 [section |-> sect.name, key |-> sect.options[k].key]]
             \o RegistryFields(i + 1)

FieldName(f) == form_field_name(section_to_form(f.section), f.key)

\* The forms submitted: every field of the page filled in, one field alone,
\* and every field together with fields that are none of the page's. One
\* field, the probe, carries any of the values, the others a plain word.
BaseValue == << "a" >>

Probes ==
    { [section |-> << "Synology", " ", "Photos" >>,
       key |-> << "SYNOLOGY", "_", "PASSWORD", "_", "1" >>],
      [section |-> << "Apple", " ", "Photos" >>, key |-> << "album" >>],
      [section |-> << "TimeZone" >>, key |-> << "timezone" >>] }

FullForm(probe, v) ==
    LET fields == RegistryFields(1)
    IN  [i \in DOMAIN fields |->
            [name |-> FieldName(fields[i]),
             value |-> IF fields[i] = probe THEN v ELSE BaseValue]]

PartialForm(probe, v) == << [name |-> FieldName(probe), value |-> v] >>

ForeignForm(probe, v) ==
    << [name |-> << "csrf" >>, value |-> v],
       [name |-> << "v", FORM_SEP, "Other", FORM_SEP, "x" >>, value |-> v] >>
    \o FullForm(probe, v)
    \o << [name |-> << "v", FORM_SEP, "Apple", "_", "Photos", FORM_SEP,
                      "EXTRA" >>, value |-> v],
          [name |-> << "v", FORM_SEP, "album" >>, value |-> v] >>

Album == [section |-> << "Apple", " ", "Photos" >>, key |-> << "album" >>]

Forms ==
    {FullForm(p, v) : p \in Probes, v \in Values}
    \cup {PartialForm(Album, v) : v \in Values}
    \cup {ForeignForm(Album, v) : v \in Values}

\* The lines the owner of the file writes into it.
FileLines ==
    { << "[", "Apple", " ", "Photos", "]" >>,
      << "[", "TimeZone", "]" >>,
      << "[", "Other", "]" >>,
      << "album", " ", "=", " ", "x" >>,
      << "max", "_", "photos", " ", "=" >>,
      << "album", ":", "y" >>,
      << "EXTRA", "=", "x" >>,
      << "Api", "_", "Key", "=", "x" >>,
      << "applepwd", "2", "=", "x" >>,
      << "timezone", " ", "=", " ", "x", " ", "#", " ", "c" >>,
      << "garbage" >> }

NoView == << >>

HasPrefix(field) == startswith(field.name, << "v", FORM_SEP >>)

\* config_save: the fields with the prefix, build_ini_from_form,
\* path.write_text(content), redirect.
ConfigSave(form) ==
    /\ form_data' = SelectSeq(form, HasPrefix)
    /\ config_file' = File(build_ini_from_form(form_data'))
    /\ served' = NoView
    /\ UNCHANGED jobVars

\* config_page: sections = parse_config_with_schema(path)
ConfigPage ==
    /\ served' = parse_config_with_schema(config_file)
    /\ UNCHANGED << form_data, config_file, jobVars >>

\* The owner of the file adds a line to it with an editor.
EditAppend(line) ==
    /\ config_file.exists => config_file.readable
    /\ Len(config_file.lines) < MaxFileLines
    /\ config_file' = File(Append(config_file.lines, line))
    /\ form_data' = << >>
    /\ served' = NoView
    /\ UNCHANGED jobVars

\* Clients saving the form and loading the page.
NextConfig ==
    \/ \E form \in Forms : ConfigSave(form)
    \/ ConfigPage

SpecConfig == Init /\ [][NextConfig]_vars

\* The owner of the file takes from the server, or gives it back, the
\* permission to read the file.
Chmod(readable) ==
    /\ config_file.exists
    /\ config_file.readable # readable
    /\ config_file' = [config_file EXCEPT !.readable = readable]
    /\ served' = NoView
    /\ UNCHANGED << form_data, jobVars >>

\* The owner writing the file by hand, and clients loading the page.
NextFile ==
    \/ \E line \in FileLines : EditAppend(line)
    \/ \E readable \in BOOLEAN : Chmod(readable)
    \/ ConfigPage

SpecFile == Init /\ [][NextFile]_vars

\* Bound of the lines that reach the file before a write fails.
MaxWritten == 2

\* Path.write_text(content) that raises OSError: open(path, "w") raises and
\* the file is as it was, or open has truncated the file and the write or the
\* close raises once n lines of the content are in the file.
write_text_error(path, content, n) ==
    IF n < 0 THEN path ELSE File(SubSeq(content, 1, n))

\* The forms submitted while writes fail: every field of the page or album
\* alone, album with any of the values.
SaveForms ==
    {FullForm(Album, v) : v \in Values} \cup {PartialForm(Album, v) : v \in Values}

\* config_save whose path.write_text raises OSError: answered with a 500.
ConfigSaveError(form, n) ==
    /\ config_file' =
           write_text_error(config_file,
                            build_ini_from_form(SelectSeq(form, HasPrefix)), n)
    /\ served' = NoView
    /\ UNCHANGED << form_data, jobVars >>

\* Clients saving the form, with writes that fail, and loading the page.
NextSave ==
    \/ \E form \in SaveForms : ConfigSave(form)
    \/ \E form \in SaveForms, n \in -1 .. MaxWritten : ConfigSaveError(form, n)
    \/ ConfigPage

SpecSave == Init /\ [][NextSave]_vars

----------------------------------------------------------------------------
\* Properties

IsPrefix(s, t) == Len(s) <= Len(t) /\ SubSeq(t, 1, Len(s)) = s
Last(s) == s[Len(s)]
Status(j) == jobs[j].status
Terminal(j) == Status(j) \in {"done", "failed"}
Ran == Bound(runOrder)
\* The worker has left run_mode for job j.
Finished(j) == j \in Ran /\ item.job_id # j

\* C1: the status values a job takes, in order, are a prefix of pending,
\* running, done or of pending, running, failed; the record holds the last of
\* them, and a job that exists has been created pending.
C1_StatusSequence ==
    \A j \in AllIds :
        /\ \/ IsPrefix(statusHist[j], << "pending", "running", "done" >>)
           \/ IsPrefix(statusHist[j], << "pending", "running", "failed" >>)
        /\ j \in JobIds => statusHist[j] # << >> /\ Status(j) = Last(statusHist[j])
        /\ j \notin JobIds => statusHist[j] = << >>

C1_Witness ==
    \E a, b \in AllIds :
        /\ statusHist[a] = << "pending", "running", "failed" >>
        /\ statusHist[b] = << "pending", "running", "done" >>

\* C2: at most one job is running, and of two jobs whose items were put one
\* after the other the later has left pending only if the earlier is done or
\* failed.
C2_OneAtATime ==
    /\ Cardinality({ j \in JobIds : Status(j) = "running" }) <= 1
    /\ \A i, k \in DOMAIN putOrder :
           i < k /\ Status(putOrder[k]) # "pending" => Terminal(putOrder[i])

C2_Witness ==
    /\ Len(putOrder) = 2
    /\ Status(putOrder[2]) = "running"
    /\ Status(putOrder[1]) = "failed"
    /\ raised[putOrder[1]].kind = "validation"

EngineOutcome(j) ==
    IF raised[j].kind = "engine"
    THEN /\ Status(j) = "failed"
         /\ jobs[j].error = Some(raised[j].msg)
         /\ jobs[j].log_lines # << >>
         /\ Last(jobs[j].log_lines) = "Error: " \o raised[j].msg
    ELSE /\ Status(j) = "done"
         /\ jobs[j].result_summary = Some("Completed successfully")
         /\ jobs[j].error = None

Outcome(j) ==
    IF j \in invoked THEN EngineOutcome(j)
    ELSE /\ Status(j) = "failed"
         /\ jobs[j].error = Some(raised[j].msg)
         /\ jobs[j].result_summary = None

C5_OneBridge ==
    /\ Len(logger_handlers) <= 1
    /\ \A j \in Bound(logger_handlers) :
           j \in JobIds /\ j = item.job_id /\ Status(j) = "running"

C5_Witness ==
    /\ Len(putOrder) = 2
    /\ raised[putOrder[1]].kind = "engine"
    /\ logger_handlers = << putOrder[2] >>

\* The job ids of the items in a queue, the sentinel left out.
RECURSIVE QueuedIds(_)
QueuedIds(q) ==
    IF q = << >> THEN << >>
    ELSE IF Head(q) = Sentinel THEN QueuedIds(Tail(q))
    ELSE << Head(q).job_id >> \o QueuedIds(Tail(q))

\* The item dequeued and not yet set running.
Dequeued == IF item # NoItem /\ item.job_id \notin Ran
            THEN << item.job_id >> ELSE << >>

\* C6: the jobs set running, the item just dequeued and the items still
\* queued are, in this order, the items in the order they were put.
C6_Fifo == runOrder \o Dequeued \o QueuedIds(job_queue) = putOrder

C6_Witness == runOrder = << 2, 1 >>

\* C7: a job whose parameters the validator rejected with message m never has
\* its engine invoked nor a bridge installed, gets no log line, and goes
\* pending, running, failed with error m.
C7_ValidationStops ==
    \A j \in AllIds :
        raised[j].kind = "validation" =>
            /\ j \notin invoked
            /\ j \notin Bound(logger_handlers)
            /\ emitted[j] = << >>
            /\ jobs[j].log_lines = << >>
            /\ IsPrefix(<< "pending", "running" >>, statusHist[j])
            /\ Finished(j) =>
                   /\ statusHist[j] = << "pending", "running", "failed" >>
                   /\ jobs[j].error = Some(raised[j].msg)

C7_Witness ==
    \E j \in AllIds :
        /\ raised[j] = [kind |-> "validation", msg |-> "bad args"]
        /\ Finished(j)
        /\ jobs[j].error = Some("bad args")

\* What a reader is given of a record by get_job_api ("get") and by
\* get_job_logs ("logs").
View(kind, job) == IF kind = "get" THEN ToDict(job) ELSE job.log_lines

\* C8: what a reader was given of a record while the worker was inside a call
\* of update_job_status or append_job_log on it is the record as it was
\* before the call or as it is after it.
C8_AtomicCalls ==
    call.op = "none" /\ obs.kind # "none" /\ obs.job_id = callPre.id =>
        \/ obs.val = View(obs.kind, callPre)
        \/ obs.val = View(obs.kind, jobs[obs.job_id])

\* The lines the bridge owes to a job: its records, formatted, in order.
RECURSIVE FormatAll(_)
FormatAll(rs) ==
    IF rs = << >> THEN << >> ELSE << Format(Head(rs)) >> \o FormatAll(Tail(rs))

WellFormed(r) == r.args_ok

\* The log of job j is the lines ls followed by at most the line of the
\* exception that ended it.
LogIs(j, ls) ==
    \/ jobs[j].log_lines = ls
    \/ /\ raised[j].kind \in {"setup", "engine"}
       /\ jobs[j].log_lines = Append(ls, "Error: " \o raised[j].msg)

Quiescent == call.op = "none" /\ emitQ = << >>

\* C9 as stated: every record the engine logged while running job j is in
\* j's log, once and in order, and j's log holds no other job's record.
C9_EveryRecord ==
    Quiescent => \A j \in JobIds : LogIs(j, FormatAll(emitted[j]))

\* C9, amended: the records whose formatting succeeds are in j's log, once
\* and in order, and j's log holds no other job's record; a record whose
\* formatting raises is dropped by handleError.
C9_FormattedRecords ==
    Quiescent =>
        \A j \in JobIds : LogIs(j, FormatAll(SelectSeq(emitted[j], WellFormed)))

C9_Witness ==
    /\ Quiescent
    /\ \E j \in JobIds :
           /\ Len(emitted[j]) = 2
           /\ Len(jobs[j].log_lines) = 2
           /\ \A i \in 1 .. 2 : emitted[j][i].args_ok
           /\ jobs[j].log_lines[1] # jobs[j].log_lines[2]

\* C10: no step of the program removes, changes or reorders a log line: each
\* job's log_lines before the step is a prefix of its log_lines after it.
C10_AppendOnly ==
    [][\A j \in JobIds :
           j \in DOMAIN jobs' /\ IsPrefix(jobs[j].log_lines, jobs'[j].log_lines)]_vars

C10_Witness ==
    \E a, b \in JobIds :
        /\ a # b
        /\ Len(jobs[a].log_lines) = 2
        /\ Len(jobs[b].log_lines) = 1

\* C11: a step taken while the worker processes one queue item, a validation
\* fault or an execution fault included, leaves the record of every job
\* other than the item's job as it was: status, log_lines, error,
\* result_summary and timestamps.
C11_OnlyItsRecord ==
    [][\A j \in JobIds :
           j # item.job_id => j \in DOMAIN jobs' /\ jobs'[j] = jobs[j]]_vars

\* Job 1 was processed to an execution fault while job 2 waited, untouched.
C11_Witness ==
    /\ JobIds = {1, 2}
    /\ Finished(1)
    /\ raised[1].kind = "engine"
    /\ Status(1) = "failed"
    /\ jobs[2] = NewJob(2, ModeOf(2), jobs[2].created_at)

\* C14: a create call returns an id no earlier or concurrent create has
\* returned, and leaves exactly one new record in the store, with status
\* pending, empty log_lines, no error and no result_summary, every other
\* record as it was; its second step adds the id to the index and no record.
C14_CreateFresh ==
    [][\A h \in Handlers :
           /\ handler[h].pc = "idle" /\ handler'[h].pc = "index" =>
                  LET id == handler'[h].job_id IN
                  /\ id \notin JobIds
                  /\ \A g \in Handlers \ {h} : handler[g].job_id # id
                  /\ DOMAIN jobs' = JobIds \cup {id}
                  /\ \A j \in JobIds : jobs'[j] = jobs[j]
                  /\ jobs'[id].id = id
                  /\ jobs'[id].status = "pending"
                  /\ jobs'[id].log_lines = << >>
                  /\ jobs'[id].error = None
                  /\ jobs'[id].result_summary = None
           /\ handler[h].pc = "index" /\ handler'[h].pc = "put" =>
                  /\ jobs' = jobs
                  /\ job_order' = Append(job_order, handler[h].job_id)]_vars

\* Two create calls are in flight at once, each past its insertion.
C14_Witness ==
    /\ \A h \in Handlers : handler[h].pc = "index"
    /\ \E g, h \in Handlers : handler[g].job_id # handler[h].job_id
    /\ Cardinality(JobIds) = 2

\* The ids of the jobs of a listing, in order.
IdsOf(js) == [i \in 1 .. Len(js) |-> js[i].id]

\* The job ids ids holds are those at the end of the index, the one created
\* last first.
NewestFirst(ids) ==
    /\ Len(ids) <= Len(job_order)
    /\ \A i \in 1 .. Len(ids) : ids[i] = job_order[Len(job_order) + 1 - i]

C13_NonPositiveAll ==
    \A n \in (-MaxLimit .. 0) \cup {DefaultLimit} :
        /\ Len(list_jobs(n)) = Len(job_order)
        /\ NewestFirst(IdsOf(list_jobs(n)))

\* C15: a step of update_job_status changes the error of a record only to
\* the error it was called with, its result_summary only to the summary it
\* was called with, and nothing of it but status, updated_at, error and
\* result_summary; called without an error (a summary) it leaves the error
\* (the summary) recorded before; every other record stays as it was.
C15_KeepsErrorAndSummary ==
    [][call.op = "update" =>
           \A j \in JobIds :
               /\ j \in DOMAIN jobs'
               /\ j # call.job_id => jobs'[j] = jobs[j]
               /\ jobs'[j].error # jobs[j].error =>
                      call.error # None /\ jobs'[j].error = call.error
               /\ jobs'[j].result_summary # jobs[j].result_summary =>
                      /\ call.result_summary # None
                      /\ jobs'[j].result_summary = call.result_summary
               /\ jobs'[j].id = jobs[j].id
               /\ jobs'[j].mode = jobs[j].mode
               /\ jobs'[j].created_at = jobs[j].created_at
               /\ jobs'[j].log_lines = jobs[j].log_lines]_vars

\* update_job_status, called with neither an error nor a summary on a job
\* that has both recorded, has written the new status: both are still there.
C15_Witness ==
    /\ call.op = "update" /\ call.step = "time"
    /\ call.error = None /\ call.result_summary = None
    /\ callPre.error # None /\ callPre.result_summary # None
    /\ callPre.status # call.status
    /\ jobs[call.job_id] = [callPre EXCEPT !.status = call.status]

\* C16: the step of update_job_status or append_job_log that does not find
\* its id in the store returns, and leaves every record and the index as
\* they were; get_job of an id that is not in the store gives None.
C16_UnknownIdNoOp ==
    /\ [][call.op # "none" /\ call.job_id \notin JobIds /\ call' # call =>
              call' = NoCall /\ jobs' = jobs /\ job_order' = job_order]_vars
    /\ [](\A j \in CallIds \ JobIds : get_job(j) = NoJob)

\* A client was told that an id is not in the store, and update_job_status
\* is being called with that id.
C16_Witness ==
    /\ call.op = "update" /\ call.step = "status"
    /\ call.job_id \notin JobIds
    /\ JobIds # {}
    /\ obs.kind = "absent" /\ obs.job_id = call.job_id

\* The value the form submits for the registry option f: that of the last
\* field of f's name.
FieldsOf(form, f) == {i \in DOMAIN form : form[i].name = FieldName(f)}
SubmittedValue(form, f) == form[Max(FieldsOf(form, f))].value

HasEveryKey(form) ==
    \A i \in DOMAIN RegistryFields(1) :
        FieldsOf(form, RegistryFields(1)[i]) # {}

\* The value of the registry option f in the sections of a served view.
ServedValue(sections, f) ==
    LET sect == sections[CHOOSE i \in DOMAIN sections :
                             sections[i].name = f.section]
    IN  sect.options[CHOOSE k \in DOMAIN sect.options :
                         sect.options[k].key = f.key].value

\* C17: when the form saved holds a value for every registry key, parsing
\* and merging the file that build_ini_from_form wrote gives, for every
\* registry key, the submitted value trimmed of surrounding whitespace.
C17_RoundTrip ==
    HasEveryKey(form_data) =>
        \A i \in DOMAIN RegistryFields(1) :
            LET f == RegistryFields(1)[i]
            IN  ServedValue(parse_config_with_schema(config_file), f)
                    = strip(SubmittedValue(form_data, f))

\* The values a parse result holds for the option key of the section name.
ParsedValues(parsed, name, key) ==
    UNION { {parsed[s].options[j].value :
                 j \in {j \in DOMAIN parsed[s].options :
                            parsed[s].options[j].key = key}} :
            s \in {s \in DOMAIN parsed : parsed[s].name = name} }

\* C18: merging the parse result of any file with the registry yields the
\* registry's sections in registry order, each with the registry's keys in
\* registry order, each key once; a key has the file's value when the parse
\* result holds that (section, key) pair and the registry default
\* otherwise; what the parse result holds beyond the registry is dropped.
C18_MergeFollowsRegistry ==
    LET R == default_sections_structure
        P == parse_config(config_file)
        M == merge_parsed_with_schema(P, R)
    IN  /\ Len(M) = Len(R)
        /\ \A i \in DOMAIN R :
               /\ M[i].name = R[i].name
               /\ Len(M[i].options) = Len(R[i].options)
               /\ \A k \in DOMAIN R[i].options :
                      LET key == R[i].options[k].key
                          vs == ParsedValues(P, R[i].name, key)
                      IN  /\ M[i].options[k].key = key
                          /\ M[i].options[k].value \in
                                 (IF vs = {} THEN {R[i].options[k].value}
                                  ELSE vs)
                          /\ Cardinality(vs) <= 1

\* The page was served from a file that has TimeZone before Apple Photos,
\* and an option of Apple Photos: the view has the option's value.
C18_Witness ==
    /\ config_file.exists
    /\ served # NoView
    /\ served # default_sections_structure
    /\ LET P == parse_config(config_file)
       IN  /\ Len(P) = 2
           /\ P[1].name = << "TimeZone" >>
           /\ P[2].name = << "Apple", " ", "Photos" >>
           /\ Len(P[2].options) = 1
    /\ served[4].name = << "Apple", " ", "Photos" >>
    /\ served[6].name = << "TimeZone" >>

\* The lines of a text that are neither blank nor a comment.
IsBodyLine(line) == line # << >> /\ Head(line) # "#"

\* The value to be written for the registry option f.
WantedValue(form, f) ==
    IF FieldsOf(form, f) = {} THEN << >> ELSE strip(SubmittedValue(form, f))

\* The section headers and key lines to be written for the registry sections
\* from the i-th on, without the blanks at the end of a line.
RECURSIVE WantedLines(_, _)
WantedLines(form, i) ==
    IF i > Len(default_sections_structure) THEN << >>
    ELSE LET sect == default_sections_structure[i]
         IN  << << "[" >> \o sect.name \o << "]" >> >>
             \o [k \in DOMAIN sect.options |->
                    rstrip(sect.options[k].key \o << " ", "=", " " >>
                           \o WantedValue(form, [section |-> sect.name,
                                                 key |-> sect.options[k].key]))]
             \o WantedLines(form, i + 1)

C20_MergeIdempotent ==
    LET R == default_sections_structure
        M == merge_parsed_with_schema(parse_config(config_file), R)
    IN  merge_parsed_with_schema(M, R) = M

\* The page was served from a file with values of its own.
C20_Witness ==
    /\ config_file.exists
    /\ served # NoView
    /\ served # default_sections_structure
    /\ served = merge_parsed_with_schema(served, default_sections_structure)
    /\ \E i \in DOMAIN config_file.lines :
           config_file.lines[i] = << "max", "_", "photos", " ", "=" >>

\* The file as the last save that completed left it.
Committed ==
    IF form_data = << >> THEN NoFile ELSE File(build_ini_from_form(form_data))

\* C21: a save is atomic for the readers of the configuration: the page
\* served shows the file as a completed save left it (the old content until
\* the save has completed, the new content after), never an empty or partly
\* written file.
C21_SaveAtomic ==
    served # NoView => served = parse_config_with_schema(Committed)

\* The places of the section headers of a text, and the key of an option
\* line: what stands before its first blank, = or :.
HeaderLines(lines) == {i \in DOMAIN lines : Head(lines[i]) = "["}
LineKey(line) ==
    LET i == find(line, {" ", "=", ":"})
    IN  IF i < 0 THEN line ELSE SubSeq(line, 1, i)

\* A text ConfigParser does not take: an option before the first section
\* header, a section twice, a key twice in a section, or a line that is
\* neither a header nor a key with = or :.
Malformed(lines) ==
    LET H == HeaderLines(lines)
        O == DOMAIN lines \ H
    IN  \/ \E i \in O : \A h \in H : h > i
        \/ \E i, j \in H : i < j /\ lines[i] = lines[j]
        \/ \E i, j \in O :
               /\ i < j
               /\ LineKey(lines[i]) = LineKey(lines[j])
               /\ \A h \in H : ~(i < h /\ h < j)
        \/ \E i \in O : find(lines[i], {"=", ":"}) < 0

lower(w) ==
    CASE w = "ADMIN" -> "admin"
      [] w = "API" -> "api"
      [] w = "Api" -> "api"
      [] w = "EXTRA" -> "extra"
      [] w = "IMMICH" -> "immich"
      [] w = "KEY" -> "key"
      [] w = "Key" -> "key"
      [] w = "PASSWORD" -> "password"
      [] w = "SYNOLOGY" -> "synology"
      [] w = "URL" -> "url"
      [] w = "USER" -> "user"
      [] w = "USERNAME" -> "username"
      [] OTHER -> w

\* The naming rule: the key, whatever the case of its letters, holds
\* password, api_key or secret, or is applepwd.
Sensitive(key) ==
    LET k == [i \in DOMAIN key |-> lower(key[i])]
    IN  \/ HasSub(k, << "password" >>)
        \/ HasSub(k, << "api", "_", "key" >>)
        \/ HasSub(k, << "secret" >>)
        \/ k = << "applepwd" >>

\* Every option of the sections carries the flag the naming rule gives.
FlagsFollowRule(sections) ==
    \A i \in DOMAIN sections :
        \A k \in DOMAIN sections[i].options :
            sections[i].options[k].is_password
                <=> Sensitive(sections[i].options[k].key)

\* C23: a key is sensitive exactly when its name, whatever its case, holds
\* PASSWORD, API_KEY or SECRET or is applepwd; the flag of every registry
\* key, of every key read from a file and of every key of the view served
\* follows this rule; API_KEY_USER_1, SYNOLOGY_PASSWORD_2 and applepwd are
\* sensitive, SYNOLOGY_URL and album are not.
C23_SensitivityRule ==
    /\ FlagsFollowRule(default_sections_structure)
    /\ FlagsFollowRule(parse_config(config_file))
    /\ served # NoView => FlagsFollowRule(served)
    /\ is_password_key(<< "API", "_", "KEY", "_", "USER", "_", "1" >>)
    /\ is_password_key(<< "SYNOLOGY", "_", "PASSWORD", "_", "2" >>)
    /\ is_password_key(<< "applepwd" >>)
    /\ ~is_password_key(<< "SYNOLOGY", "_", "URL" >>)
    /\ ~is_password_key(<< "album" >>)

\* The page was served from a file of the section Other with the keys
\* Api_Key and applepwd2: the first is read as sensitive, the second is not.
C23_Witness ==
    /\ served # NoView
    /\ config_file.lines = << << "[", "Other", "]" >>,
                              << "Api", "_", "Key", "=", "x" >>,
                              << "applepwd", "2", "=", "x" >> >>
    /\ LET P == parse_config(config_file)
       IN  /\ Len(P) = 1 /\ Len(P[1].options) = 2
           /\ P[1].options[1].is_password
           /\ ~P[1].options[2].is_password

\* The job's item has been put on the queue.
Enqueued(j) == \E i \in DOMAIN putOrder : putOrder[i] = j

C25_StatusFields ==
    \A j \in JobIds :
        /\ jobs[j].status = "done" =>
               jobs[j].result_summary # None /\ jobs[j].error = None
        /\ jobs[j].status = "failed" => jobs[j].error # None
        /\ jobs[j].status \in {"pending", "running"} =>
               jobs[j].error = None /\ jobs[j].result_summary = None

\* The place of x in the sequence s, which holds it once.
PlaceIn(s, x) == CHOOSE i \in DOMAIN s : s[i] = x

\* C26: with request handlers submitting jobs at the same time, the jobs
\* are set running in the order in which they were created, the order of
\* the index list_jobs reads: the index and the queue hold the jobs in the
\* same order.
C26_RunInIndexOrder ==
    \A a, b \in DOMAIN runOrder :
        a < b => PlaceIn(job_order, runOrder[a]) < PlaceIn(job_order, runOrder[b])

\* C27: a step appends to the log_lines of a job only while the job is
\* running, never before and never once it is done or failed; and when a
\* job whose processing raised becomes failed, the line of the fault is
\* already the last of its log.
C27_LogOnlyWhileRunning ==
    [][\A j \in JobIds :
           /\ jobs'[j].log_lines # jobs[j].log_lines =>
                  jobs[j].status = "running" /\ jobs'[j].status = "running"
           /\ (/\ raised[j].kind \in {"setup", "engine"}
               /\ jobs[j].status # "failed"
               /\ jobs'[j].status = "failed")
                  => /\ jobs[j].log_lines # << >>
                     /\ Last(jobs[j].log_lines) = ErrorLine(raised[j].msg)]_vars

\* A job whose engine invocation logged a record and then raised is failed:
\* its log holds the record and the line of the fault.
C27_Witness ==
    \E j \in JobIds :
        /\ jobs[j].status = "failed"
        /\ raised[j].kind = "engine"
        /\ Len(jobs[j].log_lines) = 2
        /\ Last(jobs[j].log_lines) = ErrorLine(raised[j].msg)

\* C28: in every state, those between the steps of create calls running at
\* the same time included, every id of the index is a key of the job map
\* and is in the index once; list_jobs finds every job of the index; the
\* job a create call has made is found by get_job; and no step removes a
\* job.
C28_IndexWithinStore ==
    /\ [](/\ \A i \in DOMAIN job_order : job_order[i] \in JobIds
          /\ \A i, k \in DOMAIN job_order : job_order[i] = job_order[k] => i = k
          /\ Len(list_jobs(0)) = Len(job_order)
          /\ \A h \in Handlers :
                 handler[h].pc # "idle" =>
                     get_job(handler[h].job_id).id = handler[h].job_id)
    /\ [][\A j \in JobIds : j \in DOMAIN jobs' /\ jobs'[j].id = j]_vars

\* Two create calls run at the same time: both have stored their job, one
\* has appended its id to the index and the other has not yet.
C28_Witness ==
    /\ \A h \in Handlers : handler[h].pc # "idle"
    /\ Cardinality(JobIds) = 2
    /\ Len(job_order) = 1

====
